---- MODULE Spec2Model ----
(***************************************************************************)
(* A model of openpnm/core/_base2.py: the key-addressed attribute store    *)
(* (Base2), the '@domain' overlay (Domain) and the model registry          *)
(* (ModelMixin2).                                                          *)
(*                                                                         *)
(* Strings are sequences of tokens.  The separators "." and "@" are tokens *)
(* of their own, every other token is an indivisible run of characters, so *)
(* that split, startswith and concatenation are computed as Python         *)
(* computes them ("leftx" is <<"left", "x">>, of which "left" is a prefix).*)
(* Arrays are records [dtype, shape, data]; a float array holds integers   *)
(* and NaN, a boolean array holds 0 and 1.                                 *)
(***************************************************************************)
EXTENDS Integers, Sequences, FiniteSets, TLC

VARIABLES
  store,    \* the dict's items, in insertion order
  models,   \* self.models' items, in insertion order
  npNone,   \* what the numpy of this build makes of np.ones(None)
  last,     \* the last call: its arguments, the store before it, its outcome
  nops      \* the number of calls made

vars == <<store, models, npNone, last, nops>>

\* The nested retries of __getitem__ the recursion limit allows
MaxRetry == 2

(***************************************************************************)
(* Strings.                                                                *)
(***************************************************************************)
DOT == "."
AT == "@"
PORE == <<"pore">>
THROAT == <<"throat">>

\* Python: tok in s
Contains(s, tok) == \E i \in 1..Len(s) : s[i] = tok

\* Index of the first tok of s (0 when there is none)
Find(s, tok) ==
  IF Contains(s, tok) THEN CHOOSE i \in 1..Len(s) : s[i] = tok /\ \A j \in 1..(i-1) : s[j] # tok
  ELSE 0

\* Index of the last tok of s (0 when there is none)
RFind(s, tok) ==
  IF Contains(s, tok)
  THEN CHOOSE i \in 1..Len(s) : s[i] = tok /\ \A j \in (i+1)..Len(s) : s[j] # tok
  ELSE 0

\* Python: s.split(tok, 1)[0] and s.split(tok)[0]
Before(s, tok) == IF Contains(s, tok) THEN SubSeq(s, 1, Find(s, tok) - 1) ELSE s

\* Python: s.split(tok, 1)[1], for s holding tok
After(s, tok) == SubSeq(s, Find(s, tok) + 1, Len(s))

\* Python: s.split(tok)[-1]
LastPart(s, tok) == SubSeq(s, RFind(s, tok) + 1, Len(s))

\* Python: s.split(tok)[1], for s holding tok
SecondPart(s, tok) == Before(After(s, tok), tok)

\* Python: s.startswith(p)
StartsWith(s, p) == Len(p) <= Len(s) /\ SubSeq(s, 1, Len(p)) = p

\* Python: a + '.' + b
Dotted(a, b) == a \o <<DOT>> \o b

\* Python: a + '@' + b
Atted(a, b) == a \o <<AT>> \o b

\* A key that is not a string: a numeric literal handed to a model as a value
NumKeys == {<<"#1.0">>}
IsStr(key) == key \notin NumKeys

\* The parts of a domain-qualified key 'e.p@d': element, prop = key.split('@')[0].split('.', 1)
\* and domain = key.split('@')[1].split('.')[-1]
ElementOf(key) == Before(key, DOT)
PropKey(key) == Before(key, AT)
LabelKey(key) == Dotted(ElementOf(key), LastPart(SecondPart(key, AT), DOT))

\* e bound to a name: the value of B(e), with e evaluated once
Only(S) == CHOOSE z \in S : TRUE
With(e, B(_)) == Only({B(r) : r \in {e}})

\* The store's assigned name (settings['name'])
name == <<"bob">>

(***************************************************************************)
(* Arrays.                                                                 *)
(***************************************************************************)
NaN == -1

Arr(dtype, data) == [dtype |-> dtype, shape |-> <<Len(data)>>, data |-> data]

\* np.array(True) and such: a 0-d array
Arr0(dtype, x) == [dtype |-> dtype, shape |-> <<>>, data |-> <<x>>]

IsDict(v) == "items" \in DOMAIN v
IsArr(v) == "dtype" \in DOMAIN v

\* numpy's conversion of an element to the dtype of the array written to
Cast(x, from, to) ==
  IF to = "bool" THEN (IF x = 0 THEN 0 ELSE 1)
  ELSE x

\* Python values handed to the store: None, a scalar, an ndarray (or list), a dict
PyNone == [t |-> "None"]
PyScalar(dtype, x) == [t |-> "scalar", dtype |-> dtype, x |-> x]
PyArr(a) == [t |-> "ndarray", a |-> a]
PyDict(items) == [t |-> "dict", items |-> items]

\* np.array(value, ndmin=1) of a scalar or list; an ndarray is taken as it is
AsArray(value) ==
  IF value.t = "scalar" THEN Arr(value.dtype, <<value.x>>) ELSE value.a

\* np.array(value).dtype: None becomes an object array, which is not bool
RhsDtype(value) ==
  CASE value.t = "None" -> "object"
    [] value.t = "scalar" -> value.dtype
    [] OTHER -> value.a.dtype

\* The elements of the right-hand side of a[locs] = value, converted to a's
\* dtype: None becomes NaN in a float array and False in a boolean one
RhsData(value, to) ==
  CASE value.t = "None" -> IF to = "bool" THEN <<0>> ELSE <<NaN>>
    [] value.t = "scalar" -> <<Cast(value.x, value.dtype, to)>>
    [] OTHER -> [i \in 1..Len(value.a.data) |-> Cast(value.a.data[i], value.a.dtype, to)]

(***************************************************************************)
(* The store: a Python dict, kept as the sequence of its items in          *)
(* insertion order.                                                        *)
(***************************************************************************)
Has(s, key) == \E i \in 1..Len(s) : s[i].k = key
Pos(s, key) == CHOOSE i \in 1..Len(s) : s[i].k = key
Lookup(s, key) == s[Pos(s, key)].v

\* dict.update({key: v}): an existing key keeps its place
Update(s, key, v) ==
  IF Has(s, key) THEN [s EXCEPT ![Pos(s, key)] = [k |-> key, v |-> v]]
  ELSE Append(s, [k |-> key, v |-> v])

\* dict.__delitem__(key)
Remove(s, key) == SelectSeq(s, LAMBDA e : e.k # key)

\* The result of a handler: the store it leaves, "ok" or the exception it
\* raises, and the value it returns
Ret(s, k, v) == [s |-> s, k |-> k, v |-> v]
Ok(s) == Ret(s, "ok", <<>>)
Raise(s, exc) == Ret(s, exc, <<>>)

\* Base2._count: the first dimension of the first item whose key starts with
\* element; None when there is none; IndexError when that array is 0-d
CountNone == -1
CountError == -2
_count(s, element) ==
  IF \E i \in 1..Len(s) : StartsWith(s[i].k, element)
  THEN LET i == CHOOSE j \in 1..Len(s) : /\ StartsWith(s[j].k, element)
                                         /\ \A h \in 1..(j-1) : ~StartsWith(s[h].k, element)
       IN IF s[i].v.shape = <<>> THEN CountError ELSE s[i].v.shape[1]
  ELSE CountNone

Np(s) == _count(s, PORE)
Nt(s) == _count(s, THROAT)

\* The positions a[locs] selects in an array of first dimension n:
\* <<"ok", positions>> or <<exception>>
Positions(locs, shape) ==
  IF ~IsArr(locs) THEN <<"IndexError">>
  ELSE IF locs.dtype # "bool" THEN <<"IndexError">>
  ELSE IF locs.shape = <<>>
       THEN <<"ok", IF locs.data[1] = 1 /\ shape # <<>> THEN [i \in 1..shape[1] |-> i]
                    ELSE IF locs.data[1] = 1 THEN <<1>> ELSE <<>> >>
  ELSE IF shape = <<>> \/ shape[1] # locs.shape[1] THEN <<"IndexError">>
  ELSE <<"ok", SelectSeq([i \in 1..shape[1] |-> i], LAMBDA i : locs.data[i] = 1)>>

\* vals[locs]
Gather(vals, locs) ==
  IF ~IsArr(vals) THEN <<"TypeError">>
  ELSE LET p == Positions(locs, vals.shape) IN
       IF p[1] # "ok" THEN p
       ELSE <<"ok", [dtype |-> vals.dtype,
                     shape |-> IF IsArr(locs) /\ locs.shape = <<>> THEN <<1>> \o vals.shape
                               ELSE <<Len(p[2])>>,
                     data |-> [i \in 1..Len(p[2]) |-> vals.data[p[2][i]]]]>>

\* vals[locs] = value: <<"ok", the array after>> or <<exception>>
Scatter(vals, locs, value) ==
  IF ~IsArr(vals) THEN <<"TypeError">>
  ELSE LET p == Positions(locs, vals.shape) IN
       IF p[1] # "ok" THEN p
       ELSE IF value.t = "dict" THEN <<"TypeError">>
       ELSE LET rhs == RhsData(value, vals.dtype)
                pos == p[2]
            IN IF Len(rhs) # 1 /\ Len(rhs) # Len(pos) THEN <<"ValueError">>
               ELSE <<"ok", [vals EXCEPT !.data =
                        [i \in 1..Len(vals.data) |->
                           IF \E j \in 1..Len(pos) : pos[j] = i
                           THEN LET j == CHOOSE h \in 1..Len(pos) : pos[h] = i
                                IN IF Len(rhs) = 1 THEN rhs[1] ELSE rhs[j]
                           ELSE vals.data[i]]]>>

\* np.ones(n, dtype): with n = None the build decides (an alias of shape ()
\* where numpy still accepts it, a TypeError where it does not)
Ones(n, dtype) ==
  IF n = CountNone
  THEN (IF npNone = "scalar" THEN <<"ok", Arr0(dtype, 1)>> ELSE <<"TypeError">>)
  ELSE IF n = CountError THEN <<"IndexError">>
  ELSE <<"ok", Arr(dtype, [i \in 1..n |-> 1])>>

\* np.zeros([n, *trailing]) and np.nan*np.ones([n, *trailing]): a list holding
\* None is no shape
Full(n, dtype, x) ==
  IF n = CountNone THEN <<"TypeError">>
  ELSE IF n = CountError THEN <<"IndexError">>
  ELSE <<"ok", Arr(dtype, [i \in 1..n |-> x])>>

(***************************************************************************)
(* Base2 and Domain: __setitem__, __getitem__, __delitem__.                *)
(* self[...] dispatches to Domain, which hands a key without '@' on to     *)
(* Base2; the keys Base2 builds itself ('pore.'+name, element+'.'+prop)    *)
(* hold no '@', so those calls are written as the Base2 handler they reach.*)
(***************************************************************************)
COORDS == <<"pore", DOT, "coords">>
CONNS == <<"throat", DOT, "conns">>

\* A store that keeps a one-element value as it is
KeepAsGiven(a, n) == a

\* Base2.__setitem__, "If value is scalar": np.ones((count, ), dtype)*value
Broadcast(a, n) == Arr(a.dtype, [i \in 1..n |-> a.data[1]])

\* A store that takes a value of any length
AnyLength(a, n) == TRUE

\* Base2.__setitem__: np.shape(value)[0] == self._count(element)
RightLength(a, n) == a.shape[1] = n

\* Base2.__setitem__ from "Enfore correct dict naming" on: the value is an array
B_SetArray(s, key, a) ==
  IF Before(key, DOT) \notin {PORE, THROAT} THEN Raise(s, "Exception")
  ELSE IF key \in {COORDS, CONNS} THEN Ok(Update(s, key, a))
  ELSE With(_count(s, Before(key, DOT)), LAMBDA n :
    IF n = CountError THEN Raise(s, "IndexError")
    ELSE IF n = CountNone THEN Ok(Update(s, key, a))
    ELSE IF a.shape = <<>> THEN Raise(s, "IndexError")
    ELSE IF a.shape[1] = 1 THEN Ok(Update(s, key, Broadcast(a, n)))
    ELSE IF RightLength(a, n) THEN Ok(Update(s, key, a))
    ELSE Raise(s, "Exception"))

\* Base2.__getitem__, the auto-vivification of the store's own labels:
\* self['pore.'+self.name] = np.ones(self.Np, dtype=bool), and the same for throat
Vivify(s) ==
  With(Ones(Np(s), "bool"), LAMBDA o1 :
    IF o1[1] # "ok" THEN Raise(s, o1[1])
    ELSE With(B_SetArray(s, Dotted(PORE, name), o1[2]), LAMBDA r1 :
      IF r1.k # "ok" THEN r1
      ELSE With(Ones(Nt(r1.s), "bool"), LAMBDA o2 :
        IF o2[1] # "ok" THEN Raise(r1.s, o2[1])
        ELSE B_SetArray(r1.s, Dotted(THROAT, name), o2[2]))))

RECURSIVE B_GetItem(_, _, _)
\* Base2.__getitem__; fuel counts the nested retries Python's recursion limit
\* still allows
B_GetItem(s, key, fuel) ==
  IF ~IsStr(key) THEN Ret(s, "ok", [num |-> key])
  ELSE IF ~Contains(key, DOT) THEN Raise(s, "ValueError")
  ELSE IF Has(s, key) THEN Ret(s, "ok", Lookup(s, key))
  ELSE IF SecondPart(key, DOT) = name
  THEN With(Vivify(s), LAMBDA r :
         IF r.k # "ok" THEN r
         ELSE IF fuel = 0 THEN Raise(r.s, "RecursionError")
         ELSE B_GetItem(r.s, key, fuel - 1))
  ELSE With(SelectSeq(s, LAMBDA e : StartsWith(e.k, key \o <<DOT>>)), LAMBDA vals :
         IF Len(vals) > 0 THEN Ret(s, "ok", [items |-> vals])
         ELSE Raise(s, "KeyError"))

\* Domain.__getitem__
D_GetItem(s, key) ==
  IF ~IsStr(key) THEN Raise(s, "TypeError")
  ELSE IF Contains(key, AT)
  THEN IF ~Contains(Before(key, AT), DOT) THEN Raise(s, "ValueError")
       ELSE With(B_GetItem(s, LabelKey(key), MaxRetry), LAMBDA r1 :
              IF r1.k # "ok" THEN r1
              ELSE With(B_GetItem(r1.s, PropKey(key), MaxRetry), LAMBDA r2 :
                IF r2.k # "ok" THEN r2
                ELSE With(Gather(r2.v, r1.v), LAMBDA g :
                  IF g[1] # "ok" THEN Raise(r2.s, g[1]) ELSE Ret(r2.s, "ok", g[2]))))
  ELSE B_GetItem(s, key, MaxRetry)

\* Domain.__setitem__, the except KeyError branch: the property was never stored.
\* The seed array is sized by self.Np whatever the element.
SeedLength(s, element) == Np(s)

\* Domain.__setitem__, the except KeyError branch
SetUnstored(s, pkey, locs, value) ==
  With(IF RhsDtype(value) = "bool" THEN Full(SeedLength(s, Before(pkey, DOT)), "bool", 0)
       ELSE Full(SeedLength(s, Before(pkey, DOT)), "float", NaN), LAMBDA temp :
    IF temp[1] # "ok" THEN Raise(s, temp[1])
    ELSE With(B_SetArray(s, pkey, temp[2]), LAMBDA r3 :
      IF r3.k # "ok" THEN r3
      ELSE With(B_GetItem(r3.s, pkey, MaxRetry), LAMBDA r4 :
        IF r4.k # "ok" THEN r4
        ELSE With(Scatter(r4.v, locs, value), LAMBDA sc :
          IF sc[1] # "ok" THEN Raise(r4.s, sc[1])
          ELSE Ok(Update(r4.s, pkey, sc[2]))))))

\* Domain.__setitem__, the try branch once self[element+'.'+prop] is read: the
\* stored array is written in place, then stored again
SetStored(s, pkey, vals, locs, value) ==
  With(Scatter(vals, locs, value), LAMBDA sc :
    IF sc[1] # "ok" THEN Raise(s, sc[1])
    ELSE B_SetArray(Update(s, pkey, sc[2]), pkey, sc[2]))

RECURSIVE B_SetItem(_, _, _), D_SetItem(_, _, _), SetEach(_, _, _, _)

\* Base2.__setitem__, value a mapping: for k, v in value.items(): self[key+'.'+k] = v
SetEach(s, key, items, i) ==
  IF i > Len(items) THEN Ok(s)
  ELSE With(D_SetItem(s, Dotted(key, items[i].k), items[i].v), LAMBDA r :
         IF r.k # "ok" THEN r ELSE SetEach(r.s, key, items, i + 1))

\* Base2.__setitem__
B_SetItem(s, key, value) ==
  IF value.t = "None" THEN Ok(s)
  ELSE IF ~Contains(key, DOT) THEN Raise(s, "ValueError")
  ELSE IF value.t = "dict" THEN SetEach(s, key, value.items, 1)
  ELSE B_SetArray(s, key, AsArray(value))

\* Domain.__setitem__
D_SetItem(s, key, value) ==
  IF Contains(key, AT)
  THEN IF ~Contains(Before(key, AT), DOT) THEN Raise(s, "ValueError")
       ELSE With(B_GetItem(s, LabelKey(key), MaxRetry), LAMBDA r1 :
              IF r1.k # "ok" THEN r1
              ELSE With(B_GetItem(r1.s, PropKey(key), MaxRetry), LAMBDA r2 :
                IF r2.k = "KeyError" THEN SetUnstored(r2.s, PropKey(key), r1.v, value)
                ELSE IF r2.k # "ok" THEN r2
                ELSE SetStored(r2.s, PropKey(key), r2.v, r1.v, value)))
  ELSE B_SetItem(s, key, value)

RECURSIVE RemoveEach(_, _, _)
RemoveEach(s, items, i) ==
  IF i > Len(items) THEN s ELSE RemoveEach(Remove(s, items[i].k), items, i + 1)

\* Base2.__delitem__ (Domain inherits it)
B_DelItem(s, key) ==
  IF Has(s, key) THEN Ok(Remove(s, key))
  ELSE With(D_GetItem(s, key), LAMBDA r :
         IF r.k # "ok" THEN Raise(r.s, r.k)
         ELSE IF ~IsDict(r.v) THEN Raise(r.s, "AttributeError")
         ELSE Ok(RemoveEach(r.s, r.v.items, 1)))

(***************************************************************************)
(* ModelMixin2: the registry, an ordered mapping kept as the sequence of   *)
(* its items, from qualified name to the entry's dict.                     *)
(***************************************************************************)
\* domain=None
NONE == <<"#None">>

ModelsHas(m, qn) == \E i \in 1..Len(m) : m[i].k = qn
ModelsGet(m, qn) == m[CHOOSE i \in 1..Len(m) : m[i].k = qn].v

\* The qualified name add_model stores under
QualifiedName(propname, domain) ==
  IF domain = NONE THEN propname ELSE propname \o <<AT>> \o LastPart(domain, DOT)

\* A registry that fills the entry already there, keeping what it held
add_model_merging(m, propname, model, domain, regen_mode, kwargs) ==
  LET qn == QualifiedName(propname, domain)
      entry == [model |-> model, regen_mode |-> regen_mode] @@ kwargs
  IN IF ModelsHas(m, qn)
     THEN [m EXCEPT ![CHOOSE i \in 1..Len(m) : m[i].k = qn] =
                        [k |-> qn, v |-> entry @@ ModelsGet(m, qn)]]
     ELSE Append(m, [k |-> qn, v |-> entry])

\* ModelMixin2.add_model: the entry is started anew, then filled
add_model(m, propname, model, domain, regen_mode, kwargs) ==
  LET qn == QualifiedName(propname, domain)
      entry == [model |-> model, regen_mode |-> regen_mode] @@ kwargs
  IN IF ModelsHas(m, qn)
     THEN [m EXCEPT ![CHOOSE i \in 1..Len(m) : m[i].k = qn] = [k |-> qn, v |-> entry]]
     ELSE Append(m, [k |-> qn, v |-> entry])

\* run_model's "Collect kwargs" loop
CollectKwargs(entry) == [f \in DOMAIN entry \ {"model", "regen_mode"} |-> entry[f]]

\* np.random.rand's draw in [0, 1)
Draw == 0

\* inds.sum() of a boolean array
SumTrue(a) == Cardinality({i \in 1..Len(a.data) : a.data[i] = 1})

\* random_seed(target, domain, seed=None, lim=[0, 1])
random_seed(s, domain, kwargs) ==
  IF domain = NONE \/ ~(DOMAIN kwargs \subseteq {"seed", "lim"}) THEN Raise(s, "TypeError")
  ELSE With(D_GetItem(s, domain), LAMBDA r :
    IF r.k # "ok" THEN r
    ELSE IF ~IsArr(r.v) THEN Raise(r.s, "AttributeError")
    ELSE IF r.v.dtype # "bool" THEN Raise(r.s, "TypeError")
    ELSE LET lim == IF "lim" \in DOMAIN kwargs THEN kwargs.lim ELSE <<0, 1>>
             x == Draw * (lim[2] - lim[1]) + lim[1]
         IN Ret(r.s, "ok", Arr("float", [i \in 1..SumTrue(r.v) |-> x])))

\* An element times f
Times(x, f) == IF x = NaN THEN NaN ELSE x * f

\* factor(target, prop, f=1)
factor(s, domain, kwargs) ==
  IF domain # NONE \/ ~(DOMAIN kwargs \subseteq {"prop", "f"}) \/ "prop" \notin DOMAIN kwargs
  THEN Raise(s, "TypeError")
  ELSE With(D_GetItem(s, kwargs.prop), LAMBDA r :
         IF r.k # "ok" THEN r
         ELSE IF ~IsArr(r.v) THEN Raise(r.s, "TypeError")
         \* (a 0-d array times f is a numpy scalar, which the store makes a
         \* one-element array of)
         ELSE Ret(r.s, "ok", Arr("float", [i \in 1..Len(r.v.data) |->
                Times(r.v.data[i], IF "f" \in DOMAIN kwargs THEN kwargs.f ELSE 1)])))

\* model(target=self, [domain=...,] **kwargs)
Invoke(s, entry, domain) ==
  IF entry.model = "random_seed" THEN random_seed(s, domain, CollectKwargs(entry))
  ELSE factor(s, domain, CollectKwargs(entry))

\* The result of running models: the store left, "ok" or the exception, and
\* the qualified names whose callable was invoked, in order
Ran(s, k, ran) == [s |-> s, k |-> k, ran |-> ran]

\* run_model, domain given: the first dimension of the array allocated for a
\* property not yet stored is self.Np whatever the element
AllocLength(s, element) == Np(s)

\* A run_model that allocates zeros for a property not yet stored
AllocateZeros(s, propname) ==
  IF Has(s, propname) THEN Ok(s)
  ELSE With(Full(AllocLength(s, Before(propname, DOT)), "float", 0), LAMBDA a0 :
         IF a0[1] # "ok" THEN Raise(s, a0[1])
         ELSE D_SetItem(s, propname, PyArr(a0[2])))

\* run_model, domain given: if propname not in self.keys(): self[propname] = NaNs
Allocate(s, propname) ==
  IF Has(s, propname) THEN Ok(s)
  ELSE With(Full(AllocLength(s, Before(propname, DOT)), "float", NaN), LAMBDA a0 :
         IF a0[1] # "ok" THEN Raise(s, a0[1])
         ELSE D_SetItem(s, propname, PyArr(a0[2])))

\* run_model, domain given: self[propname][self[element+'.'+domain]] = vals
WriteDomain(s, propname, labelkey, vals) ==
  With(D_GetItem(s, propname), LAMBDA r1 :
    IF r1.k # "ok" THEN r1
    ELSE With(D_GetItem(r1.s, labelkey), LAMBDA r2 :
      IF r2.k # "ok" THEN r2
      ELSE With(Scatter(r1.v, r2.v, vals), LAMBDA sc :
        IF sc[1] # "ok" THEN Raise(r2.s, sc[1])
        ELSE Ok(Update(r2.s, propname, sc[2])))))

\* run_model, the branch taken when domain is not None
RunDomain(s, m, propname0, domain0) ==
  IF ~Contains(Before(propname0, AT), DOT) THEN Ran(s, "ValueError", <<>>)
  ELSE LET domain == LastPart(domain0, DOT)
           element == Before(propname0, DOT)
           propname == Before(propname0, AT)
           qn == Atted(propname, domain)
       IN IF ~ModelsHas(m, qn) THEN Ran(s, "KeyError", <<>>)
          ELSE With(Invoke(s, ModelsGet(m, qn), Dotted(element, domain)), LAMBDA c :
            IF c.k # "ok" THEN Ran(c.s, c.k, <<qn>>)
            ELSE With(Allocate(c.s, propname), LAMBDA r0 :
              IF r0.k # "ok" THEN Ran(r0.s, r0.k, <<qn>>)
              ELSE With(WriteDomain(r0.s, propname, Dotted(element, domain), PyArr(c.v)),
                        LAMBDA r : Ran(r.s, r.k, <<qn>>))))

\* run_model, domain None and '@' in propname: the item the loop matches
Matches(item, propname) == StartsWith(item, propname)

RECURSIVE RunMatching(_, _, _, _, _)
\* run_model, domain None and '@' in propname: the loop over self.models.keys()
RunMatching(s, m, propname, i, ran) ==
  IF i > Len(m) THEN Ran(s, "ok", ran)
  ELSE IF Matches(m[i].k, propname)
       THEN With(RunDomain(s, m, propname, LastPart(m[i].k, AT)), LAMBDA r :
              IF r.k # "ok" THEN Ran(r.s, r.k, ran \o r.ran)
              ELSE RunMatching(r.s, m, propname, i + 1, ran \o r.ran))
       ELSE RunMatching(s, m, propname, i + 1, ran)

\* run_model, domain None and no '@' in propname: the global model
RunGlobal(s, m, propname) ==
  IF ~Contains(propname, DOT) THEN Ran(s, "ValueError", <<>>)
  ELSE IF ~ModelsHas(m, propname) THEN Ran(s, "KeyError", <<>>)
  ELSE With(Invoke(s, ModelsGet(m, propname), NONE), LAMBDA c :
         IF c.k # "ok" THEN Ran(c.s, c.k, <<propname>>)
         ELSE With(D_SetItem(c.s, propname, PyArr(c.v)), LAMBDA r :
                Ran(r.s, r.k, <<propname>>)))

\* ModelMixin2.run_model
run_model(s, m, propname, domain) ==
  IF domain = NONE
  THEN IF Contains(propname, AT) THEN RunMatching(s, m, propname, 1, <<>>)
       ELSE RunGlobal(s, m, propname)
  ELSE RunDomain(s, m, propname, domain)

RECURSIVE RegenFrom(_, _, _, _)
\* ModelMixin2.regenerate_models
RegenFrom(s, m, i, ran) ==
  IF i > Len(m) THEN Ran(s, "ok", ran)
  ELSE With(run_model(s, m, m[i].k, NONE), LAMBDA r :
         IF r.k # "ok" THEN Ran(r.s, r.k, ran \o r.ran)
         ELSE RegenFrom(r.s, m, i + 1, ran \o r.ran))

regenerate_models(s, m) == RegenFrom(s, m, 1, <<>>)

(***************************************************************************)
(* The calls a client makes.  Each is one call of the interface, made      *)
(* while fewer than limit calls have been made.                            *)
(***************************************************************************)
NoCall == [op |-> "none", key |-> <<>>, value |-> PyNone, domain |-> NONE,
           pre |-> <<>>, prem |-> <<>>, k |-> "ok", v |-> <<>>, getk |-> "none",
           ran |-> <<>>]

Init ==
  /\ store = <<>>
  /\ models = <<>>
  /\ npNone \in {"scalar", "TypeError"}
  /\ last = NoCall
  /\ nops = 0

Called(limit, s, m, call) ==
  /\ nops < limit
  /\ store' = s
  /\ models' = m
  /\ last' = [call EXCEPT !.pre = store, !.prem = models]
  /\ nops' = nops + 1
  /\ UNCHANGED npNone

\* store[key] = value
Set(key, value, limit) ==
  /\ nops < limit
  /\ \E r \in {D_SetItem(store, key, value)} :
    Called(limit, r.s, models,
           [NoCall EXCEPT !.op = "set", !.key = key, !.value = value, !.k = r.k])

\* store[key]
Get(key, limit) ==
  /\ nops < limit
  /\ \E r \in {D_GetItem(store, key)} :
    Called(limit, r.s, models,
           [NoCall EXCEPT !.op = "get", !.key = key, !.k = r.k, !.v = r.v])

\* store[key] on a store that is a plain Base2
GetBase(key, limit) ==
  /\ nops < limit
  /\ \E r \in {B_GetItem(store, key, MaxRetry)} :
    Called(limit, r.s, models,
           [NoCall EXCEPT !.op = "get_base", !.key = key, !.k = r.k, !.v = r.v])

\* store[key] = value, then store[key] when the write raised nothing
SetGet(key, value, limit) ==
  /\ nops < limit
  /\ \E r \in {D_SetItem(store, key, value)} :
    IF r.k = "ok"
    THEN \E g \in {D_GetItem(r.s, key)} :
           Called(limit, g.s, models,
                  [NoCall EXCEPT !.op = "setget", !.key = key, !.value = value,
                                 !.k = r.k, !.getk = g.k, !.v = g.v])
    ELSE Called(limit, r.s, models,
                [NoCall EXCEPT !.op = "setget", !.key = key, !.value = value, !.k = r.k])

\* del store[key]
Del(key, limit) ==
  /\ nops < limit
  /\ \E r \in {B_DelItem(store, key)} :
    Called(limit, r.s, models, [NoCall EXCEPT !.op = "del", !.key = key, !.k = r.k])

\* store.add_model(propname, model, domain, **kwargs)
AddModel(propname, model, domain, kwargs, limit) ==
  /\ nops < limit
  /\ \E m \in {add_model(models, propname, model, domain, "normal", kwargs)} :
    Called(limit, store, m,
           [NoCall EXCEPT !.op = "add_model", !.key = propname, !.domain = domain,
                          !.value = [t |-> "model", model |-> model, kwargs |-> kwargs]])

\* store.run_model(propname, domain)
RunModel(propname, domain, limit) ==
  /\ nops < limit
  /\ \E r \in {run_model(store, models, propname, domain)} :
    Called(limit, r.s, models,
           [NoCall EXCEPT !.op = "run_model", !.key = propname, !.domain = domain,
                          !.k = r.k, !.ran = r.ran])

\* store.regenerate_models()
Regenerate(limit) ==
  /\ nops < limit
  /\ \E r \in {regenerate_models(store, models)} :
    Called(limit, r.s, models,
           [NoCall EXCEPT !.op = "regenerate_models", !.k = r.k, !.ran = r.ran])

(***************************************************************************)
(* The store on its own: what the calls are made with.                     *)
(***************************************************************************)
MaxOps == 3
MaxLen == 3

K(e, p) == <<e, DOT, p>>
KD(e, p, d) == <<e, DOT, p, AT, d>>

BoolScalar == PyScalar("bool", 1)
NanScalar == PyScalar("float", NaN)

\* A label true on all but the last of MaxLen elements, and a property of each
\* length up to MaxLen
BoolArrays == {PyArr(Arr("bool", [i \in 1..MaxLen |-> IF i < MaxLen THEN 1 ELSE 0]))}
FloatArrays == {PyArr(Arr("float", [i \in 1..n |-> i])) : n \in 1..MaxLen}

PlainKeys == {COORDS, K("pore", "left"), K("pore", "seed"), K("throat", "seed")}
DomainKeys == {KD("pore", "seed", "left")}
SetValues == {PyNone, BoolScalar, NanScalar} \cup BoolArrays \cup FloatArrays

Next ==
  \/ \E key \in PlainKeys \cup DomainKeys, value \in SetValues : Set(key, value, MaxOps)
  \/ \E key \in PlainKeys \cup DomainKeys \cup {Dotted(PORE, name)} : Get(key, MaxOps)
  \/ \E key \in DomainKeys, value \in SetValues : SetGet(key, value, MaxOps)
  \/ \E key \in PlainKeys : Del(key, MaxOps)

Spec == Init /\ [][Next]_vars

(***************************************************************************)
(* The pores of a store whose coordinates are replaced: longer runs of     *)
(* writes to few keys.                                                     *)
(***************************************************************************)
MaxCoordsOps == 5

CoordsKeys == {COORDS, K("pore", "left"), K("pore", "seed"), KD("pore", "seed", "left")}
CoordsValues == {BoolScalar, PyArr(Arr("float", <<2>>)), PyArr(Arr("float", <<1, 2, 3>>))}

NextCoords ==
  \/ \E key \in CoordsKeys, value \in CoordsValues : Set(key, value, MaxCoordsOps)
  \/ \E value \in CoordsValues : SetGet(KD("pore", "seed", "left"), value, MaxCoordsOps)

SpecCoords == Init /\ [][NextCoords]_vars

(***************************************************************************)
(* The registry: labels, models registered on them, and their runs.        *)
(***************************************************************************)
MaxModelOps == 5

LEFT == <<"left">>
LEFTX == <<"left", "x">>

\* Labels of two pores, and the label and a first value of three throats
LabelWrites ==
  {<<Dotted(PORE, d), PyArr(Arr("bool", b))>> : d \in {LEFT, LEFTX},
                                               b \in {<<1, 0>>, <<0, 1>>}} \cup
  {<<K("throat", "left"), PyArr(Arr("bool", <<1, 1, 0>>))>>,
   <<KD("throat", "seed", "left"), PyArr(Arr("float", <<1, 2>>))>>}

\* add_model's arguments: seeds on the domains left (registered in two ways)
\* and leftx, and twice the seeds as a model of the whole store
Registrations ==
  {<<K("pore", "seed"), "random_seed", LEFT, [lim |-> <<1, 1>>]>>,
   <<K("pore", "seed"), "random_seed", Dotted(PORE, LEFT), [seed |-> 1]>>,
   <<K("pore", "seed"), "random_seed", Dotted(PORE, LEFTX), [lim |-> <<2, 2>>]>>,
   <<K("throat", "seed"), "random_seed", LEFT, [lim |-> <<1, 1>>]>>,
   <<K("pore", "twice"), "factor", NONE, [prop |-> K("pore", "seed"), f |-> 2]>>}

\* run_model's arguments
Runs ==
  {<<K("pore", "seed"), NONE>>, <<KD("pore", "seed", "left"), NONE>>,
   <<KD("pore", "seed", "left") \o <<"x">>, NONE>>,
   <<K("pore", "seed"), LEFT>>, <<K("pore", "seed"), Dotted(PORE, LEFT)>>,
   <<K("pore", "twice"), NONE>>,
   <<K("throat", "seed"), LEFT>>}

NextModels ==
  \/ \E w \in LabelWrites : Set(w[1], w[2], MaxModelOps)
  \/ \E c \in Registrations : AddModel(c[1], c[2], c[3], c[4], MaxModelOps)
  \/ \E c \in Runs : RunModel(c[1], c[2], MaxModelOps)
  \/ Regenerate(MaxModelOps)

SpecModels == Init /\ [][NextModels]_vars

(***************************************************************************)
(* The store's own name in keys: the self-labels 'pore.bob' and            *)
(* 'throat.bob', keys of another element, and keys that are no strings.    *)
(***************************************************************************)
MaxNameOps == 3

OTHER_KIND == <<"other">>

\* Arrays of two pores and of three throats, and writes under keys that hold
\* the store's name or another element
NameWrites ==
  {<<K("pore", "seed"), PyArr(Arr("float", <<1, 2>>))>>,
   <<K("throat", "seed"), PyArr(Arr("float", <<1, 2, 3>>))>>,
   <<Dotted(PORE, name) \o <<DOT, "sub">>, PyArr(Arr("float", <<1, 2>>))>>,
   <<Dotted(PORE, name), PyArr(Arr("bool", <<1, 0>>))>>,
   <<KD("pore", "seed", "bob"), PyScalar("float", 2)>>,
   <<K("other", "seed"), PyScalar("float", 2)>>,
   <<KD("other", "seed", "bob"), PyScalar("float", 2)>>,
   <<KD("other", "seed", "left"), PyScalar("float", 2)>>,
   <<<<"other">>, PyScalar("float", 2)>>}

NameKeys ==
  {Dotted(PORE, name), Dotted(THROAT, name), Dotted(OTHER_KIND, name),
   Dotted(PORE, name) \o <<DOT, "sub">>, K("pore", "seed"), K("pore", "none")}

NextNames ==
  \/ \E w \in NameWrites : Set(w[1], w[2], MaxNameOps)
  \/ \E key \in NameKeys \cup NumKeys : Get(key, MaxNameOps)
  \/ \E key \in NumKeys \cup {Dotted(PORE, name)} : GetBase(key, MaxNameOps)
  \/ \E key \in NameKeys : Del(key, MaxNameOps)

SpecNames == Init /\ [][NextNames]_vars

(***************************************************************************)
(* Mappings and groups: a mapping written under a key, leaves read and     *)
(* deleted through their group.                                            *)
(***************************************************************************)
MaxNestedOps == 3

NESTED == <<"nested">>
Item(k, v) == [k |-> k, v |-> v]

NestedWrites ==
  {<<K("pore", "left"), PyArr(Arr("bool", <<1, 0>>))>>,
   <<K("pore", "dict"), PyDict(<<Item(K("pore", "item1"), PyScalar("float", 1)),
                                 Item(K("pore", "item2"), PyScalar("float", 1))>>)>>,
   <<K("pore", "dict"), PyDict(<<Item(KD("pore", "item1", "left"), PyScalar("float", 2))>>)>>,
   <<Dotted(PORE, NESTED) \o <<DOT, "name1">>, PyScalar("float", 1)>>,
   <<Dotted(PORE, NESTED) \o <<DOT, "name2">>, PyScalar("float", 2)>>,
   <<Dotted(PORE, name) \o <<DOT, "sub">>, PyScalar("float", 1)>>}

NestedKeys ==
  {Dotted(PORE, NESTED), Dotted(PORE, NESTED) \o <<DOT, "name1">>, PORE,
   Dotted(PORE, name), K("pore", "dict"), K("pore", "item1")}

NextNested ==
  \/ \E w \in NestedWrites : Set(w[1], w[2], MaxNestedOps)
  \/ \E key \in NestedKeys \ {PORE} : Get(key, MaxNestedOps)
  \/ \E key \in NestedKeys : Del(key, MaxNestedOps)

SpecNested == Init /\ [][NextNested]_vars

(***************************************************************************)
(* Properties.                                                             *)
(***************************************************************************)
Kinds == {PORE, THROAT}
Exempt == {COORDS, CONNS}

\* A key 'e.p', e a kind, that is not domain-qualified
IsPlain(key) == Contains(key, DOT) /\ ~Contains(key, AT) /\ ElementOf(key) \in Kinds

\* A key 'e.p@d', e a kind
IsQualified(key) == Contains(key, DOT) /\ Contains(key, AT) /\ ElementOf(key) \in Kinds

\* s holds a boolean label under key
IsLabel(s, key) == Has(s, key) /\ Lookup(s, key).dtype = "bool"

\* Position i is one the label under key selects / leaves out
Inside(s, key, i) ==
  Has(s, key) /\ i \in DOMAIN Lookup(s, key).data /\ Lookup(s, key).data[i] = 1
Outside(s, key, i) == ~Inside(s, key, i)

\* The last call wrote something that is neither None nor a mapping
WroteArray == last.value.t \in {"scalar", "ndarray"}

\* What a never-stored property is seeded with for the value written
SeedFor(value) == IF RhsDtype(value) = "bool" THEN 0 ELSE NaN

\* The value's element meant for the j-th position of a domain
Meant(value, j) == IF Len(AsArray(value).data) = 1 THEN AsArray(value).data[1]
                   ELSE AsArray(value).data[j]

\* The rank of position i among the positions the label selects
Rank(s, key, i) == Cardinality({h \in 1..i : Inside(s, key, h)})

\* Every key of s other than key is in s2 with the same value, and s2 holds
\* no other key
SameElsewhere(s, s2, key) ==
  /\ \A i \in 1..Len(s) : s[i].k # key => Has(s2, s[i].k) /\ Lookup(s2, s[i].k) = s[i].v
  /\ \A i \in 1..Len(s2) : s2[i].k # key => Has(s, s2[i].k)

\* The qualified name the last run_model was asked to run
Asked ==
  IF last.domain = NONE THEN last.key
  ELSE Atted(Before(last.key, AT), LastPart(last.domain, DOT))

\* The registered names of m, in order
Registered(m) == [i \in 1..Len(m) |-> m[i].k]

\* C1: for each kind whose count is defined, every stored array of the kind
\* other than 'pore.coords' and 'throat.conns' has first-dimension length equal
\* to the count the store reports.
C1_LengthInvariant ==
  \A e \in Kinds :
    _count(store, e) >= 0 =>
      \A i \in 1..Len(store) :
        (ElementOf(store[i].k) = e /\ store[i].k \notin Exempt)
          => store[i].v.shape = <<_count(store, e)>>

\* C2: with a boolean label 'pore.d' of k true positions and a value v of
\* length k, set('pore.p@d', v) then get('pore.p@d') returns exactly v, and if
\* 'pore.p' was not stored before, it holds the seed (False for a boolean v,
\* NaN otherwise) wherever 'pore.d' is false.
C2_RoundTrip ==
  (/\ last.op = "setget"
   /\ IsQualified(last.key) /\ ElementOf(last.key) = PORE
   /\ IsLabel(last.pre, LabelKey(last.key))
   /\ last.value.t = "ndarray"
   /\ last.value.a.shape = <<SumTrue(Lookup(last.pre, LabelKey(last.key)))>>)
  => /\ last.k = "ok" /\ last.getk = "ok"
     /\ last.v.data = last.value.a.data
     /\ ~Has(last.pre, PropKey(last.key)) =>
          /\ Has(store, PropKey(last.key))
          /\ \A i \in DOMAIN Lookup(store, PropKey(last.key)).data :
               (i \in DOMAIN Lookup(last.pre, LabelKey(last.key)).data
                  /\ Outside(last.pre, LabelKey(last.key), i))
                 => Lookup(store, PropKey(last.key)).data[i] = SeedFor(last.value)

\* C3: run_model('e.p@d') with domain=None changes 'e.p' only where the label
\* 'e.d' is true: every other position of 'e.p' and every other stored key is
\* as before the call (a newly allocated 'e.p' being all NaN before).
C3_RunFrame ==
  (/\ last.op = "run_model" /\ last.domain = NONE /\ IsQualified(last.key))
  => /\ SameElsewhere(last.pre, store, PropKey(last.key))
     /\ SameElsewhere(store, last.pre, PropKey(last.key))
     /\ Has(last.pre, PropKey(last.key)) => Has(store, PropKey(last.key))
     /\ Has(store, PropKey(last.key)) =>
          \A i \in DOMAIN Lookup(store, PropKey(last.key)).data :
            Outside(last.pre, LabelKey(last.key), i)
              => Lookup(store, PropKey(last.key)).data[i] =
                   (IF Has(last.pre, PropKey(last.key))
                    THEN Lookup(last.pre, PropKey(last.key)).data[i] ELSE NaN)

\* C4: a regenerate_models() that returns has executed the model of every
\* registered qualified name exactly once, in the order of registration.
C4_RegenerateOnce ==
  (last.op = "regenerate_models" /\ last.k = "ok") => last.ran = Registered(last.prem)

\* C5: run_model(propname) with domain=None and no '@' in propname, the
\* registry holding only '@'-qualified entries for it (their labels stored),
\* executes the model of every entry 'propname@d', once each, and returns.
C5_FanOut ==
  (/\ last.op = "run_model" /\ last.domain = NONE /\ IsPlain(last.key)
   /\ ~ModelsHas(last.prem, last.key)
   /\ \E i \in 1..Len(last.prem) : PropKey(last.prem[i].k) = last.key
   /\ \A i \in 1..Len(last.prem) :
        PropKey(last.prem[i].k) = last.key => IsLabel(last.pre, LabelKey(last.prem[i].k)))
  => /\ last.k = "ok"
     /\ last.ran = SelectSeq(Registered(last.prem), LAMBDA qn : PropKey(qn) = last.key)

\* C6: run_model asked for a qualified name that is not registered, as
\* run_model('e.p'), run_model('e.p', domain=d) or run_model('e.p@d'), fails
\* with the model-not-found error, executes no model and leaves the store as
\* it was.
C6_ModelNotFound ==
  (last.op = "run_model" /\ ~ModelsHas(last.prem, Asked))
  => /\ last.k = "KeyError"
     /\ last.ran = <<>>
     /\ store = last.pre

\* C7: with a label 'e.d' stored and 'e.p' never stored, e pore or throat,
\* set('e.p@d', v) succeeds and stores 'e.p' with as many elements as the
\* kind has, v where 'e.d' is true and the seed elsewhere; and a run_model
\* restricted to a domain allocates a never-stored property at that length.
C7_FirstWrite ==
  /\ (/\ last.op \in {"set", "setget"}
      /\ IsQualified(last.key)
      /\ IsLabel(last.pre, LabelKey(last.key))
      /\ ~Has(last.pre, PropKey(last.key))
      /\ WroteArray
      /\ AsArray(last.value).shape \in
           {<<1>>, <<SumTrue(Lookup(last.pre, LabelKey(last.key)))>>})
     => /\ last.k = "ok"
        /\ Has(store, PropKey(last.key))
        /\ Lookup(store, PropKey(last.key)).shape = <<_count(last.pre, ElementOf(last.key))>>
        /\ \A i \in DOMAIN Lookup(store, PropKey(last.key)).data :
             Lookup(store, PropKey(last.key)).data[i] =
               IF Inside(last.pre, LabelKey(last.key), i)
               THEN Meant(last.value, Rank(last.pre, LabelKey(last.key), i))
               ELSE SeedFor(last.value)
  /\ (/\ last.op = "run_model" /\ last.domain # NONE
      /\ ModelsHas(last.prem, Asked)
      /\ ModelsGet(last.prem, Asked).model = "random_seed"
      /\ IsLabel(last.pre, LabelKey(Asked))
      /\ ~Has(last.pre, PropKey(Asked)))
     => /\ last.k = "ok"
        /\ Has(store, PropKey(Asked))
        /\ Lookup(store, PropKey(Asked)).shape = <<_count(last.pre, ElementOf(Asked))>>
        /\ \A i \in DOMAIN Lookup(store, PropKey(Asked)).data :
             Outside(last.pre, LabelKey(Asked), i)
               => Lookup(store, PropKey(Asked)).data[i] = NaN

\* C8: set('e.p@d', v) on a stored 'e.p' leaves the length of 'e.p' as it was,
\* leaves 'e.p' as it was wherever 'e.d' is false, leaves every other key as
\* it was, and writes a scalar v to every position of the domain.
C8_StoredWrite ==
  (/\ last.op \in {"set", "setget"}
   /\ IsQualified(last.key)
   /\ IsLabel(last.pre, LabelKey(last.key))
   /\ Has(last.pre, PropKey(last.key)))
  => /\ Has(store, PropKey(last.key))
     /\ Lookup(store, PropKey(last.key)).shape = Lookup(last.pre, PropKey(last.key)).shape
     /\ \A i \in DOMAIN Lookup(last.pre, PropKey(last.key)).data :
          (i \in DOMAIN Lookup(store, PropKey(last.key)).data
             /\ Outside(last.pre, LabelKey(last.key), i))
            => Lookup(store, PropKey(last.key)).data[i] =
                 Lookup(last.pre, PropKey(last.key)).data[i]
     /\ SameElsewhere(last.pre, store, PropKey(last.key))
     /\ SameElsewhere(store, last.pre, PropKey(last.key))
     /\ last.value.t = "scalar" =>
          /\ last.k = "ok"
          /\ \A i \in DOMAIN Lookup(store, PropKey(last.key)).data :
               Inside(last.pre, LabelKey(last.key), i)
                 => Lookup(store, PropKey(last.key)).data[i] = last.value.x

C10_ShapeGuard ==
  (/\ last.op = "set"
   /\ IsPlain(last.key) /\ last.key \notin Exempt
   /\ _count(last.pre, ElementOf(last.key)) >= 0
   /\ WroteArray
   /\ AsArray(last.value).shape # <<1>>
   /\ AsArray(last.value).shape # <<_count(last.pre, ElementOf(last.key))>>)
  => /\ last.k = "Exception"
     /\ store = last.pre

\* A write of the wrong length to a stored key has been refused
C10_Witness ==
  /\ last.op = "set" /\ last.k = "Exception"
  /\ IsPlain(last.key) /\ last.key \notin Exempt
  /\ _count(last.pre, ElementOf(last.key)) >= 2
  /\ WroteArray
  /\ AsArray(last.value).shape # <<1>>
  /\ Has(last.pre, last.key)

\* C11: with Np established and 'pore.bob' not stored, get('pore.bob') on the
\* store named bob returns an all-true boolean array of Np elements.
C11_SelfLabel ==
  (/\ last.op \in {"get", "get_base"}
   /\ last.key = Dotted(PORE, name)
   /\ Np(last.pre) >= 0
   /\ ~Has(last.pre, last.key))
  => /\ last.k = "ok"
     /\ last.v = Arr("bool", [i \in 1..Np(last.pre) |-> 1])

\* C12: set(key, None) raises nothing and leaves the store as it was, for every
\* key, domain-qualified or not, whether its property is stored or not.
C12_NoneNoOp ==
  (last.op = "set" /\ last.value = PyNone)
  => /\ last.k = "ok"
     /\ store = last.pre

\* C13: get(key) with a key that is not a string returns the key itself and
\* leaves the store as it was, on a plain Base2 and on a Domain alike.
C13_Passthrough ==
  (last.op \in {"get", "get_base"} /\ last.key \in NumKeys)
  => /\ last.k = "ok"
     /\ last.v = [num |-> last.key]
     /\ store = last.pre

\* C14: after set(key, mapping) on a store with Np established (and each
\* domain named by a sub-key stored as a label), get of every sub-key of the
\* mapping returns an array holding that sub-key's value, Np long when the
\* sub-key names no domain.
C14_MappingWrite ==
  (/\ last.op = "set"
   /\ last.value.t = "dict"
   /\ Np(last.pre) >= 0
   /\ \A i \in 1..Len(last.value.items) :
        Contains(last.value.items[i].k, AT)
        => IsLabel(last.pre, LabelKey(last.value.items[i].k)))
  => \A i \in 1..Len(last.value.items) :
       \E r \in {D_GetItem(store, last.value.items[i].k)} :
         /\ r.k = "ok"
         /\ IsArr(r.v)
         /\ \A j \in 1..Len(r.v.data) : r.v.data[j] = last.value.items[i].v.x
         /\ ~Contains(last.value.items[i].k, AT) => r.v.shape = <<Np(last.pre)>>

\* the stored keys under group g: those starting with g + '.'
Under(s, g) == SelectSeq(s, LAMBDA e : StartsWith(e.k, g \o <<DOT>>))

\* C15: delete(g) with g not stored itself and some stored key starting with
\* g + '.' removes exactly the keys with that prefix, after which get of g and
\* of each removed key raises KeyError.
C15_NestedDelete ==
  (/\ last.op = "del"
   /\ ~Has(last.pre, last.key)
   /\ Len(Under(last.pre, last.key)) > 0)
  => /\ last.k = "ok"
     /\ store = SelectSeq(last.pre, LAMBDA e : ~StartsWith(e.k, last.key \o <<DOT>>))
     /\ \A i \in 1..Len(Under(last.pre, last.key)) :
          D_GetItem(store, Under(last.pre, last.key)[i].k).k = "KeyError"

\* C16: delete(key) with key not stored and no stored key starting with
\* key + '.' raises KeyError and leaves the store as it was.
C16_DeleteMiss ==
  (/\ last.op = "del"
   /\ ~Has(last.pre, last.key)
   /\ Len(Under(last.pre, last.key)) = 0)
  => /\ last.k = "KeyError"
     /\ store = last.pre

\* The registry without the entry named qn
Without(m, qn) == SelectSeq(m, LAMBDA e : e.k # qn)

\* C17: after add_model under a qualified name already registered, the registry
\* holds one entry of that name, made of the model, the regen_mode and the
\* kwargs of this call and of nothing else, and every other entry is as it was.
C17_Reregistration ==
  (last.op = "add_model" /\ ModelsHas(last.prem, Asked))
  => /\ Cardinality({i \in 1..Len(models) : models[i].k = Asked}) = 1
     /\ ModelsGet(models, Asked) =
          [model |-> last.value.model, regen_mode |-> "normal"] @@ last.value.kwargs
     /\ Without(models, Asked) = Without(last.prem, Asked)

\* A second registration under a name whose entry held a kwarg this call does
\* not give, with another entry in the registry
C17_Witness ==
  /\ last.op = "add_model"
  /\ ModelsHas(last.prem, Asked)
  /\ ~(DOMAIN ModelsGet(last.prem, Asked) \subseteq DOMAIN ModelsGet(models, Asked))
  /\ Len(Without(models, Asked)) > 0

\* Position i of the array stored under key holds a value that is not NaN
Filled(s, key, i) ==
  Has(s, key) /\ i \in DOMAIN Lookup(s, key).data /\ Lookup(s, key).data[i] # NaN

\* The models the last call ran to the end: all those invoked, but the last
\* one when the call raised
Completed ==
  IF last.k = "ok" THEN last.ran ELSE SubSeq(last.ran, 1, Len(last.ran) - 1)

\* C18: a run_model call that runs domain models of a pore property fills
\* exactly the positions inside the domains of the models it ran and leaves
\* every other position as it was, filled or NaN.  From a property never
\* stored, whose every position counts as NaN, the filled positions after any
\* number of such calls are those of the union of the executed domains.
C18_NanAccounting ==
  (/\ last.op = "run_model"
   /\ Contains(last.key, DOT)
   /\ ElementOf(last.key) = PORE
   /\ \A j \in 1..Len(last.ran) : Contains(last.ran[j], AT))
  => \A i \in 1..MaxLen :
       Filled(store, Before(last.key, AT), i)
       <=> \/ Filled(last.pre, Before(last.key, AT), i)
           \/ \E j \in 1..Len(Completed) :
                Inside(last.pre, Dotted(PORE, After(Completed[j], AT)), i)

\* A run that raised nothing and left the property part filled, part NaN
C18_Witness ==
  /\ last.op = "run_model"
  /\ last.k = "ok"
  /\ Len(last.ran) > 0
  /\ ElementOf(last.key) = PORE
  /\ \A j \in 1..Len(last.ran) : Contains(last.ran[j], AT)
  /\ \E i \in 1..MaxLen : Filled(store, Before(last.key, AT), i)
  /\ \E i \in 1..MaxLen :
       /\ Has(store, Before(last.key, AT))
       /\ i \in DOMAIN Lookup(store, Before(last.key, AT)).data
       /\ ~Filled(store, Before(last.key, AT), i)

\* The key starts with 'pore.' or 'throat.'
HasKindPrefix(key) == StartsWith(key, PORE \o <<DOT>>) \/ StartsWith(key, THROAT \o <<DOT>>)

\* C19: every stored key starts with 'pore.' or 'throat.', and a write of a
\* value that is neither None nor a mapping under a key with any other prefix
\* raises an error and leaves the store as it was.
C19_KeyPrefix ==
  /\ \A i \in 1..Len(store) : HasKindPrefix(store[i].k)
  /\ (last.op = "set" /\ WroteArray /\ ~HasKindPrefix(last.key))
     => /\ last.k # "ok"
        /\ store = last.pre

\* C20: get(key) of a string key holding a dot, on a store with both counts
\* established, ends without running out of retries: it returns or raises
\* after the store's self-labels were written at most once.
C20_GetTerminates ==
  (/\ last.op \in {"get", "get_base"}
   /\ IsStr(last.key)
   /\ Contains(last.key, DOT)
   /\ Np(last.pre) >= 0
   /\ Nt(last.pre) >= 0)
  => last.k # "RecursionError"

====
